---- MODULE Spec2Model ----
(***************************************************************************)
(* A model of gat_skip.py: the edge-conditioned graph attention operator   *)
(* `gat` (one forward pass as a sequence of steps) and the layer-stack     *)
(* driver `gat_seq`.                                                       *)
(*                                                                         *)
(* Tensors are modelled by their dims and their rows (the tensor flattened *)
(* to its last dimension), with integer entries.  Quantities that are      *)
(* real-valued in the program (attention weights, outputs) are exact       *)
(* rationals <<num, den>> in lowest terms.  exp is taken to base 2 on      *)
(* logits counted in units of the negative slope, so exp values are        *)
(* integers; softmax's 1e-16 in the denominator is left out.               *)
(***************************************************************************)
EXTENDS Integers, Sequences, FiniteSets, TLC

\* ---------------------------------------------------------------- bounds
MaxNodes == 3
MaxEdges == 2
MaxHeads == 2
MaxChannels == 2

\* Python's None, and a present optional value
None == [tag |-> "None"]
Some(v) == [tag |-> "Some", v |-> v]
IsNone(o) == o.tag = "None"

\* ------------------------------------------------------------ arithmetic
Abs(a) == IF a < 0 THEN -a ELSE a

RECURSIVE Gcd(_, _)
Gcd(a, b) == IF b = 0 THEN a ELSE Gcd(b, a % b)

RECURSIVE Pow2(_)
Pow2(k) == IF k <= 0 THEN 1 ELSE 2 * Pow2(k - 1)

\* a rational in lowest terms with a positive denominator
Rat(n, d) ==
    LET g == Gcd(Abs(n), Abs(d))
        s == IF d < 0 THEN -1 ELSE 1
    IN  <<(s * n) \div g, (s * d) \div g>>

RatZero == <<0, 1>>
RatOne == <<1, 1>>
RatAdd(p, q) == Rat(p[1] * (q[2] \div Gcd(p[2], q[2])) + q[1] * (p[2] \div Gcd(p[2], q[2])),
                    p[2] * (q[2] \div Gcd(p[2], q[2])))
RatMul(p, q) ==
    LET g1 == Gcd(Abs(p[1]), q[2])
        g2 == Gcd(Abs(q[1]), p[2])
        a == IF g1 = 0 THEN 1 ELSE g1
        b == IF g2 = 0 THEN 1 ELSE g2
    IN  Rat((p[1] \div a) * (q[1] \div b), (p[2] \div b) * (q[2] \div a))

RECURSIVE RatSum(_)
RatSum(s) == IF s = <<>> THEN RatZero ELSE RatAdd(Head(s), RatSum(Tail(s)))

RECURSIVE IntSum(_)
IntSum(s) == IF s = <<>> THEN 0 ELSE Head(s) + IntSum(Tail(s))

RECURSIVE SeqMin(_)
SeqMin(s) == IF Len(s) = 1 THEN s[1]
             ELSE LET m == SeqMin(Tail(s)) IN IF s[1] < m THEN s[1] ELSE m

\* the subsequence of s at the positions where keep holds
RECURSIVE Pick(_, _, _)
Pick(s, keep, i) ==
    IF i > Len(s) THEN <<>>
    ELSE (IF keep[i] THEN <<s[i]>> ELSE <<>>) \o Pick(s, keep, i + 1)

\* ------------------------------------------------------------- tensors
\* A tensor: dims, and rows = the entries grouped by the last dimension.
Tensor(dims, rows) == [dims |-> dims, rows |-> rows]
Rank(t) == Len(t.dims)
LastDim(t) == t.dims[Len(t.dims)]

\* torch.nn.Linear(in_features, out_features, bias=False) on the last
\* dimension; "fail" when the last dimension is not in_features.
LinearRow(row, weight, out_features) ==
    [k \in 1..out_features |-> IntSum([f \in 1..Len(row) |-> weight[k][f] * row[f]])]

\* .view(-1, H, C) of rows of width H*C
ViewHC(rows, H, C) ==
    [n \in 1..Len(rows) |-> [h \in 1..H |-> [c \in 1..C |-> rows[n][(h - 1) * C + c]]]]

\* (t * att).sum(dim=-1) for t of shape [*, H, C] and att of shape [1, H, C]
AttSum(t, att, H, C) ==
    [n \in 1..Len(t) |-> [h \in 1..H |-> IntSum([c \in 1..C |-> t[n][h][c] * att[h][c]])]]

\* ------------------------------------------------------ gat: parameters
\* negative_slope = 0.2 = 1 / SlopeDen
SlopeDen == 5

\* dropout probabilities p = <<num, den>> the module may be built with
DropoutValues == {<<0, 1>>, <<1, 2>>}

\* The module configurations: the arguments of gat.__init__ (training is
\* torch.nn.Module's flag): the smallest and the largest head count and
\* width.  Dropout is enumerated for single-head modules with the default
\* bias and add_self_loops.
Configs ==
    [in_channels : {1}, edge_in_channels : {1},
     out_channels : {1, MaxChannels}, heads : {1, MaxHeads},
     concat : BOOLEAN, has_bias : BOOLEAN, add_self_loops : BOOLEAN,
     dropout : {<<0, 1>>}, training : {TRUE}]
    \cup
    [in_channels : {1}, edge_in_channels : {1},
     out_channels : {1, MaxChannels}, heads : {1},
     concat : BOOLEAN, has_bias : {TRUE}, add_self_loops : {TRUE},
     dropout : DropoutValues, training : BOOLEAN]

\* Linear(...).weight after glorot(): a fixed 0/1 matrix [out_features, in_features]
GlorotLinear(out_features, in_features) ==
    [k \in 1..out_features |-> [f \in 1..in_features |-> IF (k + f) % 2 = 0 THEN 1 ELSE 0]]

\* Parameter(torch.Tensor(1, heads, out_channels)) after glorot(): a fixed vector
GlorotAtt(H, C, v) == [h \in 1..H |-> [c \in 1..C |-> IF c = 1 THEN v ELSE 0]]

\* the width of the bias __init__ creates: heads * out_channels when
\* concat, out_channels otherwise (None when bias=False)
BiasWidth(c) == IF c.concat THEN c.heads * c.out_channels ELSE c.out_channels

\* the learned parameters right after __init__ (reset_parameters zeroes the bias)
InitParams(c) ==
    [lin_l |-> GlorotLinear(c.heads * c.out_channels, c.in_channels),
     lin_e |-> GlorotLinear(c.heads * c.out_channels, c.edge_in_channels),
     att_l |-> GlorotAtt(c.heads, c.out_channels, 1),
     att_r |-> GlorotAtt(c.heads, c.out_channels, -1),
     att_e |-> GlorotAtt(c.heads, c.out_channels, -1),
     bias  |-> IF c.has_bias THEN Some([k \in 1..BiasWidth(c) |-> 0]) ELSE None]

\* ------------------------------------------------- gat: pure computations
\* F.leaky_relu(a, negative_slope), in units of 1/SlopeDen
LeakyRelu(a) == IF a >= 0 THEN SlopeDen * a ELSE a

\* the edges (positions of index) that share edge e's group
GroupOf(index, e) == {e2 \in 1..Len(index) : index[e2] = index[e]}

\* the smallest logit of head h in edge e's group
GroupMin(logit, index, e, h) ==
    CHOOSE m \in {logit[e2][h] : e2 \in GroupOf(index, e)} :
        \A e2 \in GroupOf(index, e) : m <= logit[e2][h]

RECURSIVE SetSum(_, _, _, _)
SetSum(S, logit, h, m) ==
    IF S = {} THEN 0
    ELSE LET e == CHOOSE x \in S : TRUE
         IN  Pow2(logit[e][h] - m) + SetSum(S \ {e}, logit, h, m)

\* torch_geometric.utils.softmax(src, index): exp(src) / sum of exp(src)
\* over the entries with the same index, per head
Softmax(logit, index, H) ==
    [e \in 1..Len(logit) |-> [h \in 1..H |->
        LET m == GroupMin(logit, index, e, h)
        IN  Rat(Pow2(logit[e][h] - m), SetSum(GroupOf(index, e), logit, h, m))]]

\* F.dropout(alpha, p, training): identity unless training with p > 0; then
\* a kept entry is scaled by 1/(1-p) and a dropped one is 0
DropoutActive(c) == c.training /\ c.dropout[1] > 0
Dropout(a, c, mask) ==
    IF ~DropoutActive(c) THEN a
    ELSE [e \in 1..Len(a) |-> [h \in 1..Len(a[e]) |->
            IF mask[e][h]
            THEN RatMul(a[e][h], Rat(c.dropout[2], c.dropout[2] - c.dropout[1]))
            ELSE RatZero]]

\* the outcomes of dropout's random draw: which entries of [E, H] are kept
DropoutMasks(c, E, H) ==
    IF DropoutActive(c) THEN [1..E -> [1..H -> BOOLEAN]]
    ELSE {[e \in 1..E |-> [h \in 1..H |-> TRUE]]}

\* variant: every target row receives every message
Aggregate_Everywhere(msg, index, N, H, C) ==
    [t \in 1..N |-> [h \in 1..H |-> [c \in 1..C |->
        RatSum([e \in 1..Len(msg) |-> msg[e][h][c]])]]]

\* aggr='add': scatter-add of the messages into the N target rows
Aggregate(msg, index, N, H, C) ==
    [t \in 1..N |-> [h \in 1..H |-> [c \in 1..C |->
        RatSum(Pick([e \in 1..Len(msg) |-> msg[e][h][c]],
                    [e \in 1..Len(msg) |-> index[e] = t - 1], 1))]]]

\* ------------------------------------------------------------ gat: state
VARIABLES
    cfg,            \* the attributes __init__ stores (in_channels .. add_self_loops, training)
    params,         \* lin_l, lin_e, att_l, att_r, att_e, bias
    _alpha,         \* the cached attention tensor
    pc,             \* where the current forward call stands
    x, edge_index, edge_attr, return_attention_weights,   \* forward's arguments
    out, alpha,     \* forward's locals
    result          \* what forward returned

gatVars == <<cfg, params, _alpha, pc, x, edge_index, edge_attr,
             return_attention_weights, out, alpha, result>>

\* -------------------------------------------------------- gat_seq: state
VARIABLES
    seq_cfg,        \* gat_seq.__init__'s arguments, and torch.nn.Module's training
    convs, bns,     \* the two ModuleLists (the modules are named by their position)
    seq_pc,         \* where the current gat_seq.forward call stands
    seq_x, seq_edge_index, seq_edge_attr, instr_vectors, batch,  \* forward's arguments
    seq_i, seq_h, x_cat, edge_cat,   \* forward's locals i, h, x_cat, edge_cat
    ops,            \* the operations forward has applied so far, in order
    seq_result,     \* what forward returned
    bn_tracked,     \* per batch-norm module, how often its running statistics were updated
    stats_used,     \* the statistics each batch norm of this pass normalised with, in order
    first_pass      \* when the caller repeats a call: what the first pass returned

seqVars == <<seq_cfg, convs, bns, seq_pc, seq_x, seq_edge_index, seq_edge_attr,
             instr_vectors, batch, seq_i, seq_h, x_cat, edge_cat, ops, seq_result,
             bn_tracked, stats_used, first_pass>>

\* ------------------------------------ gat: concurrent forward calls, state
VARIABLES
    par_cfg, par_params,   \* the gat module both threads call
    par_alpha,             \* its attribute self._alpha, shared by the threads
    th_pc,                 \* per thread, where its forward call stands
    th_args,               \* per thread, forward's arguments
    th_out, th_alpha,      \* per thread, forward's locals out and alpha
    th_result              \* per thread, what forward returned

parVars == <<par_cfg, par_params, par_alpha, th_pc, th_args, th_out, th_alpha,
             th_result>>

\* ------------------------------------------- optimistic_restore: state
VARIABLES
    r_pc,            \* where the call of optimistic_restore stands
    own_state,       \* network.state_dict(): key -> [size, val]
    own_before,      \* own_state as it was when the call began
    state_dict,      \* the checkpoint: its (name, [size, val]) items, in order
    names_map,       \* None, or the (name_old, name_new) items, in order
    r_k,             \* how many items of state_dict the loop has consumed
    mismatch, only_detector, state_dict_keys_new,   \* the locals
    reported,        \* the items the loop printed a message about
    r_result         \* what the call returned

restoreVars == <<r_pc, own_state, own_before, state_dict, names_map, r_k, mismatch,
                 only_detector, state_dict_keys_new, reported, r_result>>

\* -------------------------------------------------- filter_dets: state
VARIABLES
    d_pc,            \* where the call of filter_dets stands
    boxes, obj_scores, obj_classes, rel_inds, pred_scores,   \* its arguments
    d_result         \* what it returned

detsVars == <<d_pc, boxes, obj_scores, obj_classes, rel_inds, pred_scores, d_result>>

\* ----------------------------------------- batch_index_iterator: state
VARIABLES
    it_pc,                          \* where the generator stands
    len_l, batch_size, skip_end,    \* its arguments
    iterate_until, b_start,         \* its locals
    yielded                         \* the (start, end) pairs it has yielded, in order

iterVars == <<it_pc, len_l, batch_size, skip_end, iterate_until, b_start, yielded>>

\* --------------------------------------------------------- cache: state
VARIABLES
    c_pc,            \* where the call of cache_wrapper stands
    c_fn, c_args,    \* its arguments: the file name, and what is passed on to f
    c_data,          \* its local data
    files,           \* the file system: file name -> None or the bytes stored
    invoked,         \* per file name, how often the wrapped function was invoked
    handed_out,      \* per file name, the data the calls have returned
    n_calls          \* the number of calls made

cacheVars == <<c_pc, c_fn, c_args, c_data, files, invoked, handed_out, n_calls>>

\* ------------------------------------- load_checkpoint, get_optim: state
VARIABLES
    k_pc,              \* where the caller of load_checkpoint / get_optim stands
    conf,              \* the configuration: ckpt, backbone, mode
    checkpoint_path,   \* load_checkpoint's argument
    disk,              \* the checkpoint files: path -> what torch.load returns
    start_epoch, ckpt, \* what load_checkpoint returned
    o_src,             \* where get_optim's arguments came from
    o_start_epoch, o_ckpt,   \* get_optim's / get_optim_gan's arguments
    optimizers         \* the optimizers get_optim / get_optim_gan returned

ckptVars == <<k_pc, conf, checkpoint_path, disk, start_epoch, ckpt, o_src,
              o_start_epoch, o_ckpt, optimizers>>

\* what a step of one module leaves alone: the state of the others
gatOthers == <<seqVars, parVars, restoreVars, detsVars, iterVars, cacheVars, ckptVars>>
seqOthers == <<gatVars, parVars, restoreVars, detsVars, iterVars, cacheVars, ckptVars>>
parOthers == <<gatVars, seqVars, restoreVars, detsVars, iterVars, cacheVars, ckptVars>>
restoreOthers == <<gatVars, seqVars, parVars, detsVars, iterVars, cacheVars, ckptVars>>
detsOthers == <<gatVars, seqVars, parVars, restoreVars, iterVars, cacheVars, ckptVars>>
iterOthers == <<gatVars, seqVars, parVars, restoreVars, detsVars, cacheVars, ckptVars>>
cacheOthers == <<gatVars, seqVars, parVars, restoreVars, detsVars, iterVars, ckptVars>>
ckptOthers == <<gatVars, seqVars, parVars, restoreVars, detsVars, iterVars, cacheVars>>

vars == <<gatVars, seqVars, parVars, restoreVars, detsVars, iterVars, cacheVars, ckptVars>>

\* ----------------------------------------------------------- gat: inputs
\* node features [N, F] and edge features [E, F]: 0/1 entries
NodeFeatures(N, F) == Tensor(<<N, F>>, [n \in 1..N |-> [f \in 1..F |-> (n + f) % 2]])
EdgeFeatures(E, F) == Tensor(<<E, F>>, [e \in 1..E |-> [f \in 1..F |-> (e + f + 1) % 2]])

\* the same data with a leading dimension of 1 added, and one row as a rank-1 tensor
Rank3(t) == Tensor(<<1>> \o t.dims, t.rows)
Rank1(t) == Tensor(<<LastDim(t)>>, <<t.rows[1]>>)

XTensor(t) == [kind |-> "tensor", t |-> t]
XPair(l, r) == [kind |-> "pair", l |-> l, r |-> r]

\* a rank-2 tensor, or a pair of rank-2 tensors whose second member may be None
ValidX(t) == {XTensor(t), XPair(t, Some(t)), XPair(t, None)}
\* a tensor, or a member of a pair, that is not rank-2
BadRankX(t) == {XTensor(Rank3(t)), XTensor(Rank1(t)),
                XPair(Rank3(t), Some(t)), XPair(Rank1(t), Some(t)),
                XPair(t, Some(Rank3(t))), XPair(t, Some(Rank1(t)))}

\* the edge lists of E edges over nodes 0..N-1, as (sources, targets); the
\* edges are enumerated in non-decreasing (source, target) order
EdgeLists(N, E) ==
    {st \in [1..E -> 0..(N - 1)] \X [1..E -> 0..(N - 1)] :
        \A e \in 1..(E - 1) :
            \/ st[1][e] < st[1][e + 1]
            \/ st[1][e] = st[1][e + 1] /\ st[2][e] <= st[2][e + 1]}

\* edge lists as tensors: [2, E], and the shapes [E, 2] and [3, E]
EdgeIndex(srcs, tgts) == Tensor(<<2, Len(srcs)>>, <<srcs, tgts>>)
EdgeIndexT(srcs, tgts) == Tensor(<<Len(srcs), 2>>, [e \in 1..Len(srcs) |-> <<srcs[e], tgts[e]>>])
EdgeIndex3(srcs, tgts) == Tensor(<<3, Len(srcs)>>, <<srcs, tgts, tgts>>)

Bool(b) == [tag |-> "bool", v |-> b]
IsBool(v) == v.tag = "bool"
RawValues == {None, Bool(TRUE), Bool(FALSE)}

\* ------------------------------------------------------------ gat: steps
gatInit ==
    /\ cfg \in Configs
    /\ params = InitParams(cfg)
    /\ _alpha = None
    /\ pc = "idle"
    /\ x = None /\ edge_index = None /\ edge_attr = None
    /\ return_attention_weights = None
    /\ out = None /\ alpha = None
    /\ result = None

\* no gat module is under study
gatUnused ==
    /\ cfg = None /\ params = None /\ _alpha = None /\ pc = "unused"
    /\ x = None /\ edge_index = None /\ edge_attr = None
    /\ return_attention_weights = None
    /\ out = None /\ alpha = None /\ result = None

\* self.lin(t).view(-1, H, C): None when the last dimension is not in_features
Project1(t, weight, in_features, H, C) ==
    IF LastDim(t) # in_features THEN None
    ELSE Some(ViewHC([n \in 1..Len(t.rows) |-> LinearRow(t.rows[n], weight, H * C)], H, C))

\* lines 131-138: the rank asserts on x (a tensor) or on x[0] (a pair)
RankAsserts(xv) == Rank(IF xv.kind = "tensor" THEN xv.t ELSE xv.l) = 2

\* MessagePassing.__check_input__: a tensor edge_index is [2, E]
CheckInput(ei) == Rank(ei) = 2 /\ ei.dims[1] = 2

\* the number of target rows propagate aggregates into (size is None)
TargetSize(xl, xr) == IF IsNone(xr) THEN Len(xl) ELSE Len(xr.v)

\* variant: the softmax grouped by the source row of edge_index
MessageIndex_BySource(ei) == ei.rows[1]

\* index: the row of edge_index that message() groups the softmax by
MessageIndex(ei) == ei.rows[2]

\* message(), lines 183-188: the normalized attention weights
MessageAlpha(ei, al, ar, ae, H) ==
    LET src == ei.rows[1]
        tgt == ei.rows[2]
        E == Len(src)
        logit == [e \in 1..E |-> [h \in 1..H |->
                    LeakyRelu((IF IsNone(ar) THEN al[src[e] + 1][h]
                               ELSE al[src[e] + 1][h] + ar.v[tgt[e] + 1][h])
                              + ae[IF Len(ae) = 1 THEN 1 ELSE e][h])]]
    IN  Softmax(logit, MessageIndex(ei), H)

\* variant: the cache assigned after the dropout line
CachedAlpha_AfterDropout(normalized, dropped) == dropped

\* what message() stores in self._alpha (line 189)
CachedAlpha(normalized, dropped) == normalized

\* lines 155-156: propagate, with message() (lines 183-208) and the sum
\* aggregation, on the projections x_l, x_r (None or Some), alpha_l, alpha_r
\* (None or Some), alpha_e
Propagate(ei, xl, xr, al, ar, ae) ==
    IF ~CheckInput(ei)
    THEN pc' = "failed" /\ UNCHANGED <<_alpha>> /\ out' = None
    ELSE LET H == cfg.heads
             C == cfg.out_channels
             src == ei.rows[1]
             tgt == ei.rows[2]
             E == Len(src)
             N == TargetSize(xl, xr)
         IN  IF \/ \E e \in 1..E : src[e] >= Len(xl) \/ tgt[e] >= N
                \/ Len(ae) \notin {E, 1}
             THEN pc' = "failed" /\ UNCHANGED <<_alpha>> /\ out' = None
             ELSE \E mask \in DropoutMasks(cfg, E, H) :
                    /\ \E a \in {MessageAlpha(ei, al, ar, ae, H)} :
                       \E d \in {Dropout(a, cfg, mask)} :
                       \E msg \in {[e \in 1..E |-> [h \in 1..H |-> [c \in 1..C |->
                                       RatMul(Rat(xl[src[e] + 1][h][c], 1), d[e][h])]]]} :
                             /\ _alpha' = Some(CachedAlpha(a, d))
                             /\ out' = Aggregate(msg, tgt, N, H, C)
                    /\ pc' = "propagated"

\* A caller enters forward(x, edge_index, edge_attr, return_attention_weights=raw)
\* and forward runs lines 125-156: the rank asserts, the projections of x
\* and of edge_attr, propagate.
Enter(xv, ei, ea, raw) ==
    /\ x' = xv /\ edge_index' = ei /\ edge_attr' = ea
    /\ return_attention_weights' = raw
    /\ alpha' = None /\ result' = None
    /\ UNCHANGED <<cfg, params>>
    /\ UNCHANGED gatOthers
    /\ LET H == cfg.heads
           C == cfg.out_channels
           xl == IF xv.kind = "tensor" THEN xv.t ELSE xv.l
       IN  \E pl \in {Project1(xl, params.lin_l, cfg.in_channels, H, C)},
              pe \in {Project1(ea, params.lin_e, cfg.edge_in_channels, H, C)} :
           \* lin_r is lin_l: in_channels is an int
           \E pr \in {IF xv.kind = "tensor" THEN pl
                      ELSE IF IsNone(xv.r) THEN Some(None)
                      ELSE LET q == Project1(xv.r.v, params.lin_l, cfg.in_channels, H, C)
                           IN  IF IsNone(q) THEN None ELSE Some(q)} :
             IF ~RankAsserts(xv) \/ IsNone(pl) \/ IsNone(pr) \/ IsNone(pe)
             THEN pc' = "failed" /\ UNCHANGED <<_alpha>> /\ out' = None
             ELSE \E x_l \in {pl.v}, x_r \in {IF xv.kind = "tensor" THEN pl ELSE pr.v} :
                  \E alpha_l \in {AttSum(x_l, params.att_l, H, C)},
                     alpha_r \in {IF IsNone(x_r) THEN None
                                  ELSE Some(AttSum(x_r.v, params.att_r, H, C))},
                     alpha_e \in {AttSum(pe.v, params.att_e, H, C)} :
                    Propagate(ei, x_l, x_r, alpha_l, alpha_r, alpha_e)

\* forward called on a rank-2 tensor, or on a pair of rank-2 tensors (the
\* second may be None), with an edge list [2, E]
Call ==
    /\ pc = "idle"
    /\ \E N \in 1..MaxNodes, E \in 0..MaxEdges, raw \in RawValues :
      \E st \in EdgeLists(N, E) :
        \E xv \in ValidX(NodeFeatures(N, cfg.in_channels)) :
          /\ xv.kind = "pair" => E <= 1
          /\ Enter(xv, EdgeIndex(st[1], st[2]), EdgeFeatures(E, cfg.edge_in_channels), raw)

\* forward called with node features that are not rank-2
CallBadRank ==
    /\ pc = "idle"
    /\ \E N \in 1..(MaxNodes - 1), E \in 0..1, raw \in {None, Bool(TRUE)} :
      \E st \in EdgeLists(N, E) :
        \E xv \in BadRankX(NodeFeatures(N, cfg.in_channels)) :
          Enter(xv, EdgeIndex(st[1], st[2]), EdgeFeatures(E, cfg.edge_in_channels), raw)

\* forward called with an edge list that is not laid out as [2, E]
CallBadEdges ==
    /\ pc = "idle"
    /\ \E N \in 1..MaxNodes, E \in 0..MaxEdges, raw \in {None, Bool(TRUE)} :
      \E st \in EdgeLists(N, E) :
        \E ei \in {EdgeIndexT(st[1], st[2]), EdgeIndex3(st[1], st[2])} :
          /\ \A e \in 1..E : st[1][e] = 0 /\ st[2][e] <= 1
          /\ Enter(XTensor(NodeFeatures(N, cfg.in_channels)), ei,
                   EdgeFeatures(E, cfg.edge_in_channels), raw)

\* variant: the heads concatenated whatever concat says
CombineHeads_AlwaysConcat(o, c) ==
    [n \in 1..Len(o) |-> [k \in 1..(c.heads * c.out_channels) |->
        o[n][((k - 1) \div c.out_channels) + 1][((k - 1) % c.out_channels) + 1]]]

\* lines 162-165: out.view(-1, heads * out_channels) or out.mean(dim=1)
CombineHeads(o, c) ==
    IF c.concat
    THEN [n \in 1..Len(o) |-> [k \in 1..(c.heads * c.out_channels) |->
            o[n][((k - 1) \div c.out_channels) + 1][((k - 1) % c.out_channels) + 1]]]
    ELSE [n \in 1..Len(o) |-> [k \in 1..c.out_channels |->
            RatMul(RatSum([h \in 1..c.heads |-> o[n][h][k]]), Rat(1, c.heads))]]

\* line 170: whether forward returns the pair (out, (edge_index, alpha))
ReturnsPair(raw) == IsBool(raw)

\* line 168, out += self.bias: in place, so the bias must broadcast to out's width
BiasFits(b, width) == Len(b) = width \/ Len(b) = 1
AddBias(o, b) ==
    [n \in 1..Len(o) |-> [k \in 1..Len(o[n]) |->
        RatAdd(o[n][k], Rat(b[IF Len(b) = 1 THEN 1 ELSE k], 1))]]

\* lines 159-177: alpha = self._alpha; self._alpha = None; combine the
\* heads, add the bias, return
Finish ==
    /\ pc = "propagated"
    /\ alpha' = _alpha
    /\ _alpha' = None
    /\ UNCHANGED <<cfg, params, x, edge_index, edge_attr, return_attention_weights>>
    /\ UNCHANGED gatOthers
    /\ \E o \in {CombineHeads(out, cfg)} :
       LET width == IF cfg.concat THEN cfg.heads * cfg.out_channels ELSE cfg.out_channels
       IN  IF \/ ~IsNone(params.bias) /\ ~BiasFits(params.bias.v, width)
              \/ ReturnsPair(return_attention_weights) /\ IsNone(alpha')  \* assert alpha is not None
           THEN pc' = "failed" /\ UNCHANGED <<out, result>>
           ELSE \E ob \in {IF IsNone(params.bias) THEN o ELSE AddBias(o, params.bias.v)} :
                    /\ result' = IF ReturnsPair(return_attention_weights)
                                 THEN [kind |-> "pair", out |-> ob,
                                       edge_index |-> edge_index, alpha |-> alpha'.v]
                                 ELSE [kind |-> "tensor", out |-> ob]
                    /\ out' = ob
                    /\ pc' = "returned"

\* forward has returned or raised: its frame (arguments, locals) is gone
Leave ==
    /\ pc \in {"returned", "failed"}
    /\ pc' = "idle"
    /\ x' = None /\ edge_index' = None /\ edge_attr' = None
    /\ return_attention_weights' = None
    /\ out' = None /\ alpha' = None
    /\ result' = None
    /\ UNCHANGED <<cfg, params, _alpha>>
    /\ UNCHANGED gatOthers

gatNext ==
    \/ Call \/ CallBadRank \/ CallBadEdges
    \/ Finish \/ Leave

\* ------------------------------------------------------ gat_seq: model
\* Widths and rows are tracked exactly; the values of the hidden state are
\* tracked by the operations that produced them (ops).  An instruction
\* vector is named by its layer and graph: instr_vectors[k][b] = <<k-1, b-1>>.
MaxLayers == 2
MaxWidth == 2

SeqConfigs ==
    [in_channels : {1, MaxWidth}, out_channels : {1, MaxWidth},
     edge_attr_dim : {1}, ins_dim : {1}, num_ins : 1..MaxLayers,
     training : BOOLEAN]

seqInit ==
    /\ seq_cfg \in SeqConfigs
    /\ convs = [k \in 1..seq_cfg.num_ins |-> k - 1]          \* range(num_ins)
    /\ bns = [k \in 1..(seq_cfg.num_ins - 1) |-> k - 1]      \* range(num_ins-1)
    /\ seq_pc = "idle"
    /\ seq_x = None /\ seq_edge_index = None /\ seq_edge_attr = None
    /\ instr_vectors = None /\ batch = None
    /\ seq_i = 0 /\ seq_h = None /\ x_cat = None /\ edge_cat = None
    /\ ops = <<>> /\ seq_result = None
    /\ bn_tracked = [k \in 1..(seq_cfg.num_ins - 1) |-> 0]   \* num_batches_tracked
    /\ stats_used = <<>> /\ first_pass = None

\* no gat_seq module is under study
seqUnused ==
    /\ seq_cfg = None /\ convs = <<>> /\ bns = <<>> /\ seq_pc = "unused"
    /\ seq_x = None /\ seq_edge_index = None /\ seq_edge_attr = None
    /\ instr_vectors = None /\ batch = None
    /\ seq_i = 0 /\ seq_h = None /\ x_cat = None /\ edge_cat = None
    /\ ops = <<>> /\ seq_result = None
    /\ bn_tracked = <<>> /\ stats_used = <<>> /\ first_pass = None

\* the graph counts B of a batch, and the batch-assignment vectors of N
\* nodes over B graphs (nodes grouped by graph)
GraphCounts == {1, 2}
BatchVectors(N, B) ==
    {b \in [1..N -> 0..(B - 1)] : \A n \in 1..(N - 1) : b[n] <= b[n + 1]}

\* edge lists whose edges are self-loops or lead to the next node
SeqEdgeLists(N, E) ==
    {st \in EdgeLists(N, E) :
        \A e \in 1..E : st[2][e] \in {st[1][e], (st[1][e] + 1) % N}}

\* K instruction sets for B graphs
InstrVectors(K, B) == [k \in 1..K |-> [b \in 1..B |-> <<k - 1, b - 1>>]]

\* the running statistics are followed for MaxTracked updates per module
MaxTracked == 2
MayTrack == seq_cfg.training => \A k \in 1..Len(bn_tracked) : bn_tracked[k] < MaxTracked

\* a caller enters forward(x, edge_index, edge_attr, instr_vectors, batch);
\* lines 251-253
SeqCall ==
    /\ seq_pc = "idle"
    /\ MayTrack
    /\ stats_used' = <<>> /\ first_pass' = None /\ UNCHANGED bn_tracked
    /\ \E N \in 1..MaxNodes, E \in 0..MaxEdges, B \in GraphCounts,
          K \in {seq_cfg.num_ins - 1, seq_cfg.num_ins, seq_cfg.num_ins + 1} :
       \E st \in SeqEdgeLists(N, E), bv \in BatchVectors(N, B) :
          /\ seq_x' = [rows |-> N, width |-> seq_cfg.in_channels]
          /\ seq_edge_index' = EdgeIndex(st[1], st[2])
          /\ seq_edge_attr' = [rows |-> E, width |-> seq_cfg.edge_attr_dim]
          /\ instr_vectors' = InstrVectors(K, B)
          /\ batch' = bv
          /\ seq_h' = [rows |-> N, width |-> seq_cfg.in_channels]
    /\ seq_i' = 0 /\ ops' = <<>>
    /\ x_cat' = None /\ edge_cat' = None /\ seq_result' = None
    /\ seq_pc' = "loop"
    /\ UNCHANGED <<seq_cfg, convs, bns>>
    /\ UNCHANGED seqOthers

\* variant: the edge's graph looked up from its target endpoint
EdgeBatch_ByTarget(bv, ei) == [e \in 1..Len(ei.rows[2]) |-> bv[ei.rows[2][e] + 1]]

\* line 257, edge_batch = batch[edge_index[0]]
EdgeBatch(bv, ei) == [e \in 1..Len(ei.rows[1]) |-> bv[ei.rows[1][e] + 1]]

\* lines 259 and 264, ins[index]: one row of ins per entry of index
Gather(ins, index) == [k \in 1..Len(index) |-> ins[index[k] + 1]]

\* convs[k] is gat(in_channels + ins_dim, out_channels, edge_attr_dim + ins_dim,
\* concat=False): the width of its output for node features of width xw and
\* edge features [er, ew] on N nodes, None when its forward fails
ConvForward(c, N, xw, ei, er, ew) ==
    IF \/ xw # c.in_channels + c.ins_dim            \* lin_l
       \/ ew # c.edge_attr_dim + c.ins_dim          \* lin_e
       \/ ~CheckInput(ei)
       \/ \E e \in 1..Len(ei.rows[1]) : ei.rows[1][e] >= N \/ ei.rows[2][e] >= N
       \/ er \notin {Len(ei.rows[1]), 1}
    THEN None
    ELSE Some(c.out_channels)

\* the width of a + b for operands [N, a] and [N, b] under broadcasting,
\* None when the widths cannot be broadcast
AddWidth(a, b) ==
    IF a = b THEN Some(a)
    ELSE IF a = 1 THEN Some(b)
    ELSE IF b = 1 THEN Some(a)
    ELSE None

SeqFail ==
    /\ seq_pc' = "failed"
    /\ UNCHANGED <<seq_cfg, convs, bns, seq_x, seq_edge_index, seq_edge_attr,
                   instr_vectors, batch, seq_i, seq_h, x_cat, edge_cat, ops,
                   seq_result, bn_tracked, stats_used, first_pass>>

\* one pass of the loop body, lines 256-271: the instruction broadcast, the
\* two concatenations, convs[i] and the skip connection
SeqLayer ==
    /\ seq_pc = "loop"
    /\ seq_i < Len(convs)                               \* range(num_conv_layers)
    /\ UNCHANGED seqOthers
    /\ IF \/ seq_i >= Len(instr_vectors)                \* instr_vectors[i]
          \/ \E e \in 1..Len(seq_edge_index.rows[1]) :
                seq_edge_index.rows[1][e] >= Len(batch)
          \/ \E n \in 1..Len(batch) : batch[n] >= Len(instr_vectors[seq_i + 1])
          \/ Len(batch) # seq_h.rows
       THEN SeqFail
       ELSE LET ins == instr_vectors[seq_i + 1]
                edge_batch == EdgeBatch(batch, seq_edge_index)
                repeated_ins_edge == Gather(ins, edge_batch)
                repeated_ins_node == Gather(ins, batch)
                ec == [width |-> seq_edge_attr.width + seq_cfg.ins_dim,
                       rows |-> [e \in 1..seq_edge_attr.rows |->
                                   [attr |-> e, ins |-> repeated_ins_edge[e]]]]
                xc == [width |-> seq_h.width + seq_cfg.ins_dim,
                       rows |-> [n \in 1..seq_h.rows |->
                                   [h |-> n, ins |-> repeated_ins_node[n]]]]
                conv_res == ConvForward(seq_cfg, seq_h.rows, xc.width,
                                        seq_edge_index, Len(ec.rows), ec.width)
                sum == IF IsNone(conv_res) THEN None
                       ELSE AddWidth(conv_res.v, seq_h.width)
            IN  IF IsNone(conv_res) \/ IsNone(sum)
                THEN SeqFail
                ELSE /\ x_cat' = xc
                     /\ edge_cat' = ec
                     /\ seq_h' = [rows |-> seq_h.rows, width |-> sum.v]
                     /\ ops' = ops \o <<[op |-> "conv", conv |-> convs[seq_i + 1],
                                         ins |-> seq_i],
                                        [op |-> "skip"]>>
                     /\ seq_pc' = "post"
                     /\ UNCHANGED <<seq_cfg, convs, bns, seq_x, seq_edge_index,
                                    seq_edge_attr, instr_vectors, batch, seq_i,
                                    seq_result, bn_tracked, stats_used, first_pass>>

\* variant: the post-processing stops one layer early
NotLast_OneEarly(k, L) == k < L - 2

\* line 274, i != num_conv_layers-1
NotLast(k, L) == k # L - 1

\* bns[k] = BatchNorm1d(out_channels) accepts [N, width]: the width is its
\* num_features, and in training mode there is more than one row
BatchNormAccepts(c, rows, width) ==
    width = c.out_channels /\ (c.training => rows > 1)

\* variant: the batch norm normalises with its running statistics in both modes
BatchNormStats_AlwaysRunning(training, tracked) == [from |-> "running", version |-> tracked]

\* the statistics bns[k] normalises with: those of the batch in training
\* mode, its running statistics (as they are after `tracked` updates) in
\* evaluation mode
BatchNormStats(training, tracked) ==
    IF training THEN [from |-> "batch", version |-> 0]
    ELSE [from |-> "running", version |-> tracked]

\* in training mode bns[k] updates running_mean, running_var and
\* num_batches_tracked
BatchNormTrack(training, tracked, k) ==
    IF training THEN [tracked EXCEPT ![k] = @ + 1] ELSE tracked

\* lines 274-277, then the loop's next i: batch norm, ReLU and dropout
\* after every layer but the last
SeqPost ==
    /\ seq_pc = "post"
    /\ UNCHANGED seqOthers
    /\ IF ~NotLast(seq_i, Len(convs))
       THEN /\ UNCHANGED <<seq_h, ops>>
            /\ seq_i' = seq_i + 1
            /\ seq_pc' = "loop"
            /\ UNCHANGED <<seq_cfg, convs, bns, seq_x, seq_edge_index, seq_edge_attr,
                           instr_vectors, batch, x_cat, edge_cat, seq_result,
                           bn_tracked, stats_used, first_pass>>
       ELSE IF \/ seq_i >= Len(bns)                     \* self.bns[i]
               \/ ~BatchNormAccepts(seq_cfg, seq_h.rows, seq_h.width)
            THEN SeqFail
            ELSE /\ ops' = ops \o <<[op |-> "bn", bn |-> bns[seq_i + 1]],
                                    [op |-> "relu"], [op |-> "dropout"]>>
                 /\ seq_i' = seq_i + 1
                 /\ seq_pc' = "loop"
                 /\ stats_used' = Append(stats_used,
                                   BatchNormStats(seq_cfg.training, bn_tracked[seq_i + 1]))
                 /\ bn_tracked' = BatchNormTrack(seq_cfg.training, bn_tracked, seq_i + 1)
                 /\ UNCHANGED <<seq_cfg, convs, bns, seq_x, seq_edge_index,
                                seq_edge_attr, instr_vectors, batch, seq_h, x_cat,
                                edge_cat, seq_result, first_pass>>

\* line 280, return h, once the loop is over
SeqReturn ==
    /\ seq_pc = "loop"
    /\ seq_i >= Len(convs)
    /\ seq_result' = seq_h
    /\ seq_pc' = "returned"
    /\ UNCHANGED <<seq_cfg, convs, bns, seq_x, seq_edge_index, seq_edge_attr,
                   instr_vectors, batch, seq_i, seq_h, x_cat, edge_cat, ops,
                   bn_tracked, stats_used, first_pass>>
    /\ UNCHANGED seqOthers

\* forward has returned or raised: its frame is gone
SeqLeave ==
    /\ seq_pc \in {"returned", "failed"}
    /\ seq_pc' = "idle"
    /\ seq_x' = None /\ seq_edge_index' = None /\ seq_edge_attr' = None
    /\ instr_vectors' = None /\ batch' = None
    /\ seq_i' = 0 /\ seq_h' = None /\ x_cat' = None /\ edge_cat' = None
    /\ ops' = <<>> /\ seq_result' = None
    /\ stats_used' = <<>> /\ first_pass' = None
    /\ UNCHANGED <<seq_cfg, convs, bns, bn_tracked>>
    /\ UNCHANGED seqOthers

\* the caller calls forward again on the same module with the same inputs
\* (lines 251-253 of the second pass), keeping what the first pass returned
SeqCallAgain ==
    /\ seq_pc = "returned"
    /\ IsNone(first_pass)
    /\ MayTrack
    /\ first_pass' = Some([result |-> seq_result, ops |-> ops, stats_used |-> stats_used])
    /\ seq_h' = seq_x
    /\ seq_i' = 0 /\ ops' = <<>> /\ stats_used' = <<>>
    /\ x_cat' = None /\ edge_cat' = None /\ seq_result' = None
    /\ seq_pc' = "loop"
    /\ UNCHANGED <<seq_cfg, convs, bns, bn_tracked, seq_x, seq_edge_index,
                   seq_edge_attr, instr_vectors, batch>>
    /\ UNCHANGED seqOthers

\* torch.nn.Module.train() / eval() between two calls: self.training, which
\* lines 275 and 277 depend on
SeqSetMode ==
    /\ seq_pc = "idle"
    /\ seq_cfg' = [seq_cfg EXCEPT !.training = ~@]
    /\ UNCHANGED <<convs, bns, seq_pc, seq_x, seq_edge_index, seq_edge_attr,
                   instr_vectors, batch, seq_i, seq_h, x_cat, edge_cat, ops,
                   seq_result, bn_tracked, stats_used, first_pass>>
    /\ UNCHANGED seqOthers

seqNext ==
    \/ SeqCall \/ SeqLayer \/ SeqPost \/ SeqReturn \/ SeqLeave
    \/ SeqCallAgain \/ SeqSetMode

\* ------------------------------------ gat: concurrent forward calls
\* Two threads call forward on one gat module.  A thread's steps are cut
\* where forward touches the module's attribute _alpha: the write in
\* message() (line 189), the read (line 159) and the reset (line 160).
Threads == {1, 2}
ParNodes == 2
ParEdges == 1

ParConfigs == {c \in Configs : c.heads = 1 /\ c.out_channels = 1 /\ c.concat
                               /\ c.add_self_loops /\ ~DropoutActive(c)
                               /\ c.dropout = <<0, 1>>}

parInit ==
    /\ par_cfg \in ParConfigs
    /\ par_params = InitParams(par_cfg)
    /\ par_alpha = None
    /\ th_pc = [t \in Threads |-> "idle"]
    /\ th_args = [t \in Threads |-> None]
    /\ th_out = [t \in Threads |-> None]
    /\ th_alpha = [t \in Threads |-> None]
    /\ th_result = [t \in Threads |-> None]

\* no gat module is called concurrently
parUnused ==
    /\ par_cfg = None /\ par_params = None /\ par_alpha = None
    /\ th_pc = <<>> /\ th_args = <<>> /\ th_out = <<>> /\ th_alpha = <<>>
    /\ th_result = <<>>

\* lines 125-156 on a rank-2 tensor x and an edge list [2, E]: the normalized
\* attention weights message() computes and the aggregate propagate returns
ForwardPropagate(c, p, a) ==
    LET H == c.heads
        C == c.out_channels
        x_l == Project1(a.x, p.lin_l, c.in_channels, H, C).v
        e == Project1(a.edge_attr, p.lin_e, c.edge_in_channels, H, C).v
        alpha_l == AttSum(x_l, p.att_l, H, C)
        alpha_r == Some(AttSum(x_l, p.att_r, H, C))
        alpha_e == AttSum(e, p.att_e, H, C)
        src == a.edge_index.rows[1]
        tgt == a.edge_index.rows[2]
        normalized == MessageAlpha(a.edge_index, alpha_l, alpha_r, alpha_e, H)
        dropped == Dropout(normalized, c, [k \in 1..Len(src) |-> [h \in 1..H |-> TRUE]])
        msg == [k \in 1..Len(src) |-> [h \in 1..H |-> [d \in 1..C |->
                  RatMul(Rat(x_l[src[k] + 1][h][d], 1), dropped[k][h])]]]
    IN  [alpha |-> CachedAlpha(normalized, dropped),
         out |-> Aggregate(msg, tgt, Len(x_l), H, C)]

\* lines 162-177 on the locals out and alpha (None or Some): what forward
\* returns, or a failure of line 171's assert
ForwardReturn(c, p, a, o, al) ==
    LET combined == CombineHeads(o, c)
        ob == IF IsNone(p.bias) THEN combined ELSE AddBias(combined, p.bias.v)
    IN  IF ReturnsPair(a.raw)
        THEN IF IsNone(al) THEN [kind |-> "failed"]
             ELSE [kind |-> "pair", out |-> ob, edge_index |-> a.edge_index,
                   alpha |-> al.v]
        ELSE [kind |-> "tensor", out |-> ob]

\* thread t enters forward and runs up to the end of propagate
ParCall(t) ==
    /\ th_pc[t] = "idle"
    /\ \E N \in 1..ParNodes, E \in 0..ParEdges, raw \in RawValues :
       \E st \in EdgeLists(N, E) :
       \E a \in {[x |-> NodeFeatures(N, par_cfg.in_channels),
                  edge_index |-> EdgeIndex(st[1], st[2]),
                  edge_attr |-> EdgeFeatures(E, par_cfg.edge_in_channels),
                  raw |-> raw]} :
       \E m \in {ForwardPropagate(par_cfg, par_params, a)} :
          /\ th_args' = [th_args EXCEPT ![t] = a]
          /\ par_alpha' = Some(m.alpha)                      \* line 189
          /\ th_out' = [th_out EXCEPT ![t] = m.out]
    /\ th_pc' = [th_pc EXCEPT ![t] = "propagated"]
    /\ UNCHANGED <<par_cfg, par_params, th_alpha, th_result>>
    /\ UNCHANGED parOthers

\* line 159, alpha = self._alpha
ParRead(t) ==
    /\ th_pc[t] = "propagated"
    /\ th_alpha' = [th_alpha EXCEPT ![t] = par_alpha]
    /\ th_pc' = [th_pc EXCEPT ![t] = "read"]
    /\ UNCHANGED <<par_cfg, par_params, par_alpha, th_args, th_out, th_result>>
    /\ UNCHANGED parOthers

\* line 160, self._alpha = None
ParReset(t) ==
    /\ th_pc[t] = "read"
    /\ par_alpha' = None
    /\ th_pc' = [th_pc EXCEPT ![t] = "reset"]
    /\ UNCHANGED <<par_cfg, par_params, th_args, th_out, th_alpha, th_result>>
    /\ UNCHANGED parOthers

\* lines 162-177
ParFinish(t) ==
    /\ th_pc[t] = "reset"
    /\ \E r \in {ForwardReturn(par_cfg, par_params, th_args[t], th_out[t], th_alpha[t])} :
          /\ th_result' = [th_result EXCEPT ![t] = r]
          /\ th_pc' = [th_pc EXCEPT ![t] = IF r.kind = "failed" THEN "failed"
                                           ELSE "returned"]
    /\ UNCHANGED <<par_cfg, par_params, par_alpha, th_args, th_out, th_alpha>>
    /\ UNCHANGED parOthers

\* thread t's call is over: its frame is gone
ParLeave(t) ==
    /\ th_pc[t] \in {"returned", "failed"}
    /\ th_pc' = [th_pc EXCEPT ![t] = "idle"]
    /\ th_args' = [th_args EXCEPT ![t] = None]
    /\ th_out' = [th_out EXCEPT ![t] = None]
    /\ th_alpha' = [th_alpha EXCEPT ![t] = None]
    /\ th_result' = [th_result EXCEPT ![t] = None]
    /\ UNCHANGED <<par_cfg, par_params, par_alpha>>
    /\ UNCHANGED parOthers

parNext ==
    \E t \in Threads :
        ParCall(t) \/ ParRead(t) \/ ParReset(t) \/ ParFinish(t) \/ ParLeave(t)

\* ------------------------------------------------- optimistic_restore
\* A name is a dotted path, modelled by the sequence of its segments; a
\* tensor is [size, val]: the network's tensors start with val 0, the
\* checkpoint's k-th tensor has val k.
MaxEntries == 2
Segments == {"a", "b"}
Names == {<<g>> : g \in Segments} \cup {<<"detector", g>> : g \in Segments}
Sizes == {1, 2}

\* the checkpoints of n items: distinct names, in any order
RECURSIVE ItemLists(_)
ItemLists(n) ==
    IF n = 0 THEN {<<>>}
    ELSE {Append(l, [name |-> nm, param |-> [size |-> sz, val |-> n]]) :
             l \in ItemLists(n - 1), nm \in Names, sz \in Sizes}

Checkpoints ==
    {l \in UNION {ItemLists(n) : n \in 0..MaxEntries} :
        \A j, k \in 1..Len(l) : j # k => l[j].name # l[k].name}

Networks ==
    UNION {[keys -> [size : Sizes, val : {0}]] : keys \in (SUBSET Names) \ {{}}}

NamesMaps ==
    {None, Some(<<>>), Some(<<<<"b", "a">>>>), Some(<<<<"a", "b">>, <<"b", "a">>>>)}

restoreInit ==
    /\ r_pc = "loop"
    /\ own_state \in Networks
    /\ own_before = own_state
    /\ state_dict \in Checkpoints
    /\ names_map \in NamesMaps
    /\ r_k = 0
    /\ mismatch = FALSE /\ only_detector = FALSE        \* lines 18-19
    /\ state_dict_keys_new = {}                         \* line 21
    /\ reported = <<>>
    /\ r_result = None

\* optimistic_restore is not called
restoreUnused ==
    /\ r_pc = "unused" /\ own_state = None /\ own_before = None
    /\ state_dict = <<>> /\ names_map = None /\ r_k = 0
    /\ mismatch = FALSE /\ only_detector = FALSE /\ state_dict_keys_new = {}
    /\ reported = <<>> /\ r_result = None

\* name_.replace(name_old, name_new), on the segments of the name
Replace(name, name_old, name_new) ==
    [j \in 1..Len(name) |-> IF name[j] = name_old THEN name_new ELSE name[j]]

\* lines 23-25: every item of names_map applied in turn
RECURSIVE Rename(_, _, _)
Rename(name, nmap, j) ==
    IF j > Len(nmap) THEN name
    ELSE Rename(Replace(name, nmap[j][1], nmap[j][2]), nmap, j + 1)

Renamed(name, nm) == IF IsNone(nm) THEN name ELSE Rename(name, nm.v, 1)

\* variant: the name is never taken with the 'detector.' prefix
UsesPrefix_Never(name_, own) == FALSE

\* lines 27-28: whether the name is taken with the 'detector.' prefix
UsesPrefix(name_, own) ==
    (<<"detector">> \o name_) \in DOMAIN own /\ name_ \notin DOMAIN own

\* line 50: whether the comparison of the network's keys is skipped
SkipsMissing(od) == od

\* one iteration of the loop, lines 22-48
RestoreEntry ==
    /\ r_pc = "loop"
    /\ r_k < Len(state_dict)
    /\ LET param == state_dict[r_k + 1].param
           name_ == Renamed(state_dict[r_k + 1].name, names_map)
           prefixed == UsesPrefix(name_, own_state)
           name == IF prefixed THEN <<"detector">> \o name_ ELSE name_
           lost == ~prefixed /\ only_detector                       \* lines 33-35
           unknown == name \notin DOMAIN own_state
           fits == ~unknown /\ param.size = own_state[name].size
       IN  /\ state_dict_keys_new' = state_dict_keys_new \cup {name_}
           /\ only_detector' = prefixed
           /\ mismatch' = (mismatch \/ lost \/ unknown \/ ~fits)
           /\ own_state' = IF fits THEN [own_state EXCEPT ![name] = param]   \* copy_
                           ELSE own_state
           /\ reported' = IF unknown \/ ~fits THEN Append(reported, r_k + 1)
                          ELSE reported
    /\ r_k' = r_k + 1
    /\ UNCHANGED <<r_pc, own_before, state_dict, names_map, r_result>>
    /\ UNCHANGED restoreOthers

\* after the loop, lines 50-57
RestoreEnd ==
    /\ r_pc = "loop"
    /\ r_k = Len(state_dict)
    /\ LET missing == DOMAIN own_state \ state_dict_keys_new
       IN  mismatch' = IF SkipsMissing(only_detector) THEN mismatch
                       ELSE (mismatch \/ missing # {})
    /\ r_result' = Some(~mismatch')
    /\ r_pc' = "returned"
    /\ UNCHANGED <<own_state, own_before, state_dict, names_map, r_k, only_detector,
                   state_dict_keys_new, reported>>
    /\ UNCHANGED restoreOthers

restoreNext == RestoreEntry \/ RestoreEnd

\* --------------------------------------------------------- filter_dets
\* Scores are whole numbers (probabilities in units of 1/2); a box is named
\* by its position, its class is 10 + its position; a row of pred_scores has
\* the background column first.
MaxBoxes == 2
MaxRels == 2
ScoreValues == {1, 2}
PredRows == {<<2, 0, 1>>, <<0, 1, 0>>, <<1, 2, 2>>}

detsInit ==
    /\ d_pc = "called"
    /\ \E num_box \in 1..MaxBoxes, rank \in {2, 3} :
          /\ boxes = [rank |-> rank, rows |-> [b \in 1..num_box |-> b]]
          /\ obj_scores \in UNION {[1..n -> ScoreValues] : n \in {num_box, num_box + 1}}
          /\ obj_classes = [b \in 1..num_box |-> 10 + b]
          /\ \E num_rel \in 0..MaxRels :
                /\ rel_inds \in [1..num_rel -> (0..(num_box - 1)) \X (0..(num_box - 1))]
                /\ pred_scores \in UNION {[1..n -> PredRows] : n \in {num_rel, num_rel + 1}}
    /\ d_result = None

\* filter_dets is not called
detsUnused ==
    /\ d_pc = "unused" /\ boxes = None /\ obj_scores = <<>> /\ obj_classes = <<>>
    /\ rel_inds = <<>> /\ pred_scores = <<>> /\ d_result = None

\* lines 29-38: the rank test and the asserts (rel_inds is [num_rel, 2])
DetsCheck ==
    /\ d_pc = "called"
    /\ d_pc' = IF boxes.rank # 2 THEN "ValueError"
               ELSE IF \/ Len(obj_scores) # Len(boxes.rows)
                       \/ Len(pred_scores) # Len(rel_inds)
                    THEN "AssertionError"
                    ELSE "checked"
    /\ UNCHANGED <<boxes, obj_scores, obj_classes, rel_inds, pred_scores, d_result>>
    /\ UNCHANGED detsOthers

\* the largest entry of a row from column `first` on
RowMaxFrom(row, first) ==
    CHOOSE m \in {row[c] : c \in first..Len(row)} :
        \A c \in first..Len(row) : row[c] <= m

\* variant: the background column takes part in the maximum
ScoredColumns_WithBackground(row) == 1..Len(row)

\* line 43, pred_scores.data[:,1:]: the columns that count (columns are
\* numbered from 1 here)
ScoredColumns(row) == 2..Len(row)

\* line 43, .max(1) over those columns
RowMaxOver(row, columns) ==
    CHOOSE m \in {row[c] : c \in columns} : \A c \in columns : row[c] <= m

\* lines 40-46: rel_scores_argmaxed
RelScores(os, ri, ps) ==
    [r \in 1..Len(ri) |->
        RowMaxOver(ps[r], ScoredColumns(ps[r])) * os[ri[r][1] + 1] * os[ri[r][2] + 1]]

\* torch.sort(scores, descending=True): the index sequences it may return
\* (the order of equal scores is not determined)
SortedIndices(scores) ==
    {idx \in [1..Len(scores) -> 1..Len(scores)] :
        /\ \A j, k \in 1..Len(scores) : j # k => idx[j] # idx[k]
        /\ \A j \in 1..(Len(scores) - 1) : scores[idx[j]] >= scores[idx[j + 1]]}

\* lines 40-55
DetsSort ==
    /\ d_pc = "checked"
    /\ \E rel_scores_idx \in SortedIndices(RelScores(obj_scores, rel_inds, pred_scores)) :
          d_result' = [boxes_out |-> boxes.rows,
                       objs_np |-> obj_classes,
                       obj_scores_np |-> obj_scores,
                       rels |-> [k \in 1..Len(rel_inds) |-> rel_inds[rel_scores_idx[k]]],
                       pred_scores_sorted |->
                           [k \in 1..Len(rel_inds) |-> pred_scores[rel_scores_idx[k]]]]
    /\ d_pc' = "returned"
    /\ UNCHANGED <<boxes, obj_scores, obj_classes, rel_inds, pred_scores>>
    /\ UNCHANGED detsOthers

detsNext == DetsCheck \/ DetsSort

\* ------------------------------------------------ batch_index_iterator
MaxLen == 8
MaxBatch == 3

iterInit ==
    /\ it_pc = "called"
    /\ len_l \in 0..MaxLen
    /\ batch_size \in 1..MaxBatch
    /\ skip_end \in BOOLEAN
    /\ iterate_until = 0 /\ b_start = 0
    /\ yielded = <<>>

\* batch_index_iterator is not called
iterUnused ==
    /\ it_pc = "unused" /\ len_l = 0 /\ batch_size = 0 /\ skip_end = FALSE
    /\ iterate_until = 0 /\ b_start = 0 /\ yielded = <<>>

Min(a, b) == IF a <= b THEN a ELSE b

\* variant: iterate_until is len_l whatever skip_end says
IterateUntil_Whole(n, bs, skip) == n

\* lines 365-367
IterateUntil(n, bs, skip) == IF skip THEN (n \div bs) * bs ELSE n

\* the generator's first next(): lines 365-367 and the start of the range
IterStart ==
    /\ it_pc = "called"
    /\ iterate_until' = IterateUntil(len_l, batch_size, skip_end)
    /\ b_start' = 0
    /\ it_pc' = "loop"
    /\ UNCHANGED <<len_l, batch_size, skip_end, yielded>>
    /\ UNCHANGED iterOthers

\* lines 369-370: one pair is yielded, and the range moves on
IterYield ==
    /\ it_pc = "loop"
    /\ b_start < iterate_until
    /\ yielded' = Append(yielded, <<b_start, Min(b_start + batch_size, len_l)>>)
    /\ b_start' = b_start + batch_size
    /\ UNCHANGED <<it_pc, len_l, batch_size, skip_end, iterate_until>>
    /\ UNCHANGED iterOthers

\* the range is exhausted: the generator stops
IterStop ==
    /\ it_pc = "loop"
    /\ b_start >= iterate_until
    /\ it_pc' = "stopped"
    /\ UNCHANGED <<len_l, batch_size, skip_end, iterate_until, b_start, yielded>>
    /\ UNCHANGED iterOthers

iterNext == IterStart \/ IterYield \/ IterStop

\* --------------------------------------------------------------- cache
\* The wrapped function f returns a value that depends on its arguments;
\* pkl.dump stores a value as bytes and pkl.load reads the value back.
MaxCalls == 3
FileNames == {"fn1", "fn2"}
ArgValues == {1, 2}

F(args) == [computed_from |-> args]
Pickle(data) == <<"pkl", data>>
Unpickle(bytes) == bytes[2]

cacheInit ==
    /\ c_pc = "idle"
    /\ c_fn = None /\ c_args = None /\ c_data = None
    /\ files \in [FileNames -> {None} \cup {Some(Pickle(F(a))) : a \in ArgValues}]
    /\ invoked = [fn \in FileNames |-> 0]
    /\ handed_out = [fn \in FileNames |-> {}]
    /\ n_calls = 0

\* no wrapped function is called
cacheUnused ==
    /\ c_pc = "unused" /\ c_fn = None /\ c_args = None /\ c_data = None
    /\ files = <<>> /\ invoked = <<>> /\ handed_out = <<>> /\ n_calls = 0

\* variant: the file is never found
PathExists_Never(fs, fn) == FALSE

\* line 288, os.path.exists(fn)
PathExists(fs, fn) == ~IsNone(fs[fn])

\* a caller calls cache_wrapper(fn, *args)
CacheCall ==
    /\ c_pc = "idle"
    /\ n_calls < MaxCalls
    /\ \E fn \in FileNames, a \in ArgValues : c_fn' = fn /\ c_args' = a
    /\ c_data' = None
    /\ n_calls' = n_calls + 1
    /\ c_pc' = "called"
    /\ UNCHANGED <<files, invoked, handed_out>>
    /\ UNCHANGED cacheOthers

\* lines 288-290: the file exists, and its data is loaded
CacheLoad ==
    /\ c_pc = "called"
    /\ PathExists(files, c_fn)
    /\ c_data' = Unpickle(files[c_fn].v)
    /\ c_pc' = "return"
    /\ UNCHANGED <<c_fn, c_args, files, invoked, handed_out, n_calls>>
    /\ UNCHANGED cacheOthers

\* lines 291-295: the file does not exist; f is invoked and its result stored
CacheBuild ==
    /\ c_pc = "called"
    /\ ~PathExists(files, c_fn)
    /\ c_data' = F(c_args)
    /\ invoked' = [invoked EXCEPT ![c_fn] = @ + 1]
    /\ files' = [files EXCEPT ![c_fn] = Some(Pickle(c_data'))]
    /\ c_pc' = "return"
    /\ UNCHANGED <<c_fn, c_args, handed_out, n_calls>>
    /\ UNCHANGED cacheOthers

\* line 296, return data
CacheReturn ==
    /\ c_pc = "return"
    /\ handed_out' = [handed_out EXCEPT ![c_fn] = @ \cup {c_data}]
    /\ c_pc' = "idle"
    /\ UNCHANGED <<c_fn, c_args, c_data, files, invoked, n_calls>>
    /\ UNCHANGED cacheOthers

cacheNext == CacheCall \/ CacheLoad \/ CacheBuild \/ CacheReturn

\* -------------------------------- load_checkpoint, get_optim, get_optim_gan
\* A checkpoint file holds an epoch, an optimizer state that loads, fails to
\* load or is missing, and a state_dict with or without the roi_fmap entries.
MaxEpoch == 2
Backbones == {"vgg16", "vgg16_bn", "resnet50", "other"}
Modes == {"sgdet", "sgcls"}
OptimizerStates == {"good", "bad", "missing"}

CheckpointData ==
    [epoch : 0..MaxEpoch, optimizer : OptimizerStates, roi_fmap : BOOLEAN]

\* the paths: checkpoint_path may be None, a file, or no file; conf.ckpt may
\* be empty, a file, or no file
ckptInit ==
    /\ k_pc = "start"
    /\ conf \in [ckpt : {"", "pretrained.pth", "nowhere.pth"},
                 backbone : Backbones, mode : Modes]
    /\ checkpoint_path \in {None, Some("save_dir.pth"), Some("nowhere.pth")}
    /\ \E data \in CheckpointData :
          disk = [path \in {"save_dir.pth", "pretrained.pth"} |->
                     [from |-> path, epoch |-> data.epoch,
                      optimizer |-> data.optimizer, roi_fmap |-> data.roi_fmap]]
    /\ start_epoch = None /\ ckpt = None
    /\ o_src = "none" /\ o_start_epoch = None /\ o_ckpt = None
    /\ optimizers = None

\* neither function is called
ckptUnused ==
    /\ k_pc = "unused" /\ conf = None /\ checkpoint_path = None /\ disk = <<>>
    /\ start_epoch = None /\ ckpt = None
    /\ o_src = "none" /\ o_start_epoch = None /\ o_ckpt = None
    /\ optimizers = None

\* lines 164-165: the path to load from, None when there is none
CheckpointPathLoad(cp, c, d) ==
    IF ~IsNone(cp) /\ cp.v \in DOMAIN d THEN cp
    ELSE IF c.ckpt # "" THEN Some(c.ckpt) ELSE None

\* line 171, `if False:`
ResumeBranch == FALSE

StartsWithVgg16(b) == b \in {"vgg16", "vgg16_bn"}

\* lines 160-214.  The outcome is "returned" with (start_epoch, ckpt), or
\* "raised".
LoadOutcome(cp, c, d) ==
    LET checkpoint_path_load == CheckpointPathLoad(cp, c, d)
    IN  IF ~IsNone(checkpoint_path_load)
        THEN IF checkpoint_path_load.v \notin DOMAIN d
             THEN [kind |-> "raised"]                             \* torch.load
             ELSE LET loaded == d[checkpoint_path_load.v]
                  IN  IF ResumeBranch
                      THEN [kind |-> "returned",
                            start_epoch |-> loaded.epoch, ckpt |-> Some(loaded)]
                      ELSE IF StartsWithVgg16(c.backbone)
                      THEN IF loaded.roi_fmap
                           THEN [kind |-> "returned", start_epoch |-> -1,
                                 ckpt |-> Some(loaded)]
                           ELSE [kind |-> "raised"]               \* lines 197-205
                      ELSE IF c.backbone = "resnet50"
                      THEN [kind |-> "returned", start_epoch |-> -1,
                            ckpt |-> Some(loaded)]
                      ELSE [kind |-> "raised"]                    \* NotImplementedError
        ELSE IF c.mode = "sgdet" \/ StartsWithVgg16(c.backbone)
        THEN [kind |-> "raised"]                                  \* ValueError
        ELSE [kind |-> "returned", start_epoch |-> -1, ckpt |-> None]

LoadCheckpoint ==
    /\ k_pc = "start"
    /\ \E r \in {LoadOutcome(checkpoint_path, conf, disk)} :
          IF r.kind = "raised"
          THEN k_pc' = "raised" /\ UNCHANGED <<start_epoch, ckpt>>
          ELSE /\ k_pc' = "loaded"
               /\ start_epoch' = Some(r.start_epoch)
               /\ ckpt' = r.ckpt
    /\ UNCHANGED <<conf, checkpoint_path, disk, o_src, o_start_epoch, o_ckpt,
                   optimizers>>
    /\ UNCHANGED ckptOthers

\* variant: the optimizer state is restored whenever there is a checkpoint
RestoresOptimizers_AnyEpoch(se, ck) == ~IsNone(ck)

\* lines 115 and 146, `if start_epoch > -1 and ckpt is not None`
RestoresOptimizers(se, ck) == se > -1 /\ ~IsNone(ck)

\* an optimizer as constructed, and after the try/except around
\* load_state_dict(ckpt[key]): a state that is missing or does not load is
\* caught, and the optimizer stays as constructed
FreshOptimizer == [state |-> "fresh"]
OptimizerAfter(se, ck) ==
    IF RestoresOptimizers(se, ck) /\ ck.v.optimizer = "good"
    THEN [state |-> "restored", epoch |-> ck.v.epoch]
    ELSE FreshOptimizer

\* the arguments get_optim / get_optim_gan are called with: load_checkpoint's
\* results, or any start_epoch and checkpoint
OptimArguments ==
    IF k_pc = "loaded"
    THEN {[src |-> "load_checkpoint", start_epoch |-> start_epoch.v, ckpt |-> ckpt]}
    ELSE [src : {"caller"}, start_epoch : -1..MaxEpoch,
          ckpt : {None} \cup {Some(disk[path]) : path \in DOMAIN disk}]

\* get_optim, lines 130-157
GetOptim ==
    /\ k_pc \in {"start", "loaded"}
    /\ \E a \in OptimArguments :
          /\ o_src' = a.src /\ o_start_epoch' = Some(a.start_epoch) /\ o_ckpt' = a.ckpt
          /\ optimizers' = Some([optimizer |-> OptimizerAfter(a.start_epoch, a.ckpt)])
    /\ k_pc' = "built"
    /\ UNCHANGED <<conf, checkpoint_path, disk, start_epoch, ckpt>>
    /\ UNCHANGED ckptOthers

\* get_optim_gan, lines 98-127
GetOptimGan ==
    /\ k_pc \in {"start", "loaded"}
    /\ \E a \in OptimArguments :
          /\ o_src' = a.src /\ o_start_epoch' = Some(a.start_epoch) /\ o_ckpt' = a.ckpt
          /\ optimizers' = Some([G_optimizer |-> OptimizerAfter(a.start_epoch, a.ckpt),
                                 D_optimizer |-> OptimizerAfter(a.start_epoch, a.ckpt)])
    /\ k_pc' = "built"
    /\ UNCHANGED <<conf, checkpoint_path, disk, start_epoch, ckpt>>
    /\ UNCHANGED ckptOthers

ckptNext == LoadCheckpoint \/ GetOptim \/ GetOptimGan

\* ------------------------------------------------------- specifications
\* only one module is under study at a time
gatOthersUnused ==
    seqUnused /\ parUnused /\ restoreUnused /\ detsUnused /\ iterUnused /\ cacheUnused /\ ckptUnused
seqOthersUnused ==
    gatUnused /\ parUnused /\ restoreUnused /\ detsUnused /\ iterUnused /\ cacheUnused /\ ckptUnused
parOthersUnused ==
    gatUnused /\ seqUnused /\ restoreUnused /\ detsUnused /\ iterUnused /\ cacheUnused /\ ckptUnused
restoreOthersUnused ==
    gatUnused /\ seqUnused /\ parUnused /\ detsUnused /\ iterUnused /\ cacheUnused /\ ckptUnused
detsOthersUnused ==
    gatUnused /\ seqUnused /\ parUnused /\ restoreUnused /\ iterUnused /\ cacheUnused /\ ckptUnused
iterOthersUnused ==
    gatUnused /\ seqUnused /\ parUnused /\ restoreUnused /\ detsUnused /\ cacheUnused /\ ckptUnused
cacheOthersUnused ==
    gatUnused /\ seqUnused /\ parUnused /\ restoreUnused /\ detsUnused /\ iterUnused /\ ckptUnused
ckptOthersUnused ==
    gatUnused /\ seqUnused /\ parUnused /\ restoreUnused /\ detsUnused /\ iterUnused /\ cacheUnused

\* one gat module and the forward calls made on it
Init == gatInit /\ gatOthersUnused
Next == gatNext
Spec == Init /\ [][Next]_vars

\* one gat_seq module and the forward calls made on it
SeqSpecInit == seqInit /\ seqOthersUnused
SpecSeq == SeqSpecInit /\ [][seqNext]_vars

\* one call of optimistic_restore
RestoreSpecInit == restoreInit /\ restoreOthersUnused
SpecRestore == RestoreSpecInit /\ [][restoreNext]_vars

\* one call of filter_dets
DetsSpecInit == detsInit /\ detsOthersUnused
SpecDets == DetsSpecInit /\ [][detsNext]_vars

\* one run of the generator batch_index_iterator
IterSpecInit == iterInit /\ iterOthersUnused
SpecIter == IterSpecInit /\ [][iterNext]_vars

\* a sequence of calls of one wrapped function
CacheSpecInit == cacheInit /\ cacheOthersUnused
SpecCache == CacheSpecInit /\ [][cacheNext]_vars

\* load_checkpoint, and get_optim or get_optim_gan on its results or on
\* arguments of the caller's own
CkptSpecInit == ckptInit /\ ckptOthersUnused
SpecCkpt == CkptSpecInit /\ [][ckptNext]_vars

\* one gat module and two threads calling forward on it
ParSpecInit == parInit /\ parOthersUnused
SpecPar == ParSpecInit /\ [][parNext]_vars

\* ------------------------------------------------------------ gat: claims
\* the attention rows w ([E, H] rationals) are non-negative and, for every
\* node that is the target of some edge and every head, sum to 1 over the
\* edges with that target
RowStochastic(w, tgt) ==
    /\ \A e \in 1..Len(w) : \A h \in 1..Len(w[e]) : w[e][h][1] >= 0 /\ w[e][h][2] > 0
    /\ \A e \in 1..Len(w) : \A h \in 1..Len(w[e]) :
          RatSum(Pick([e2 \in 1..Len(w) |-> w[e2][h]],
                      [e2 \in 1..Len(w) |-> tgt[e2] = tgt[e]], 1)) = RatOne

\* C1: the normalized attention weights message() computes are non-negative
\* and, for every target node and every head, sum to 1 over the edges whose
\* target is that node.
C1_AttentionSumsToOne ==
    pc = "propagated" => RowStochastic(_alpha.v, edge_index.rows[2])

\* C1 witness: two edges into the same target received different weights.
C1_Witness ==
    /\ pc = "propagated"
    /\ \E e1, e2 \in 1..Len(_alpha.v) :
          /\ e1 # e2
          /\ edge_index.rows[2][e1] = edge_index.rows[2][e2]
          /\ edge_index.rows[1][e1] # edge_index.rows[1][e2]
          /\ _alpha.v[e1][1] # _alpha.v[e2][1]

\* C2 (as claimed): with add_self_loops the attention tensor has one row per
\* given edge plus one per node (E + N rows); without, one row per given edge.
C2_SelfLoopsAdded ==
    (pc = "propagated" /\ x.kind = "tensor") =>
        Len(_alpha.v) = edge_index.dims[2]
                        + (IF cfg.add_self_loops THEN x.t.dims[1] ELSE 0)

\* the number of nodes of a call on rank-2 features
ValidCall ==
    /\ IF x.kind = "tensor" THEN Rank(x.t) = 2
       ELSE Rank(x.l) = 2 /\ (IsNone(x.r) \/ Rank(x.r.v) = 2)
    /\ edge_index.dims[1] = 2 /\ Rank(edge_index) = 2
NumNodes ==
    IF x.kind = "tensor" THEN x.t.dims[1]
    ELSE IF IsNone(x.r) THEN x.l.dims[1] ELSE x.r.v.dims[1]

\* C3: forward returns N rows of width heads * out_channels when concat and
\* of width out_channels otherwise, and the bias has that same width.
C3_OutputShape ==
    LET width == IF cfg.concat THEN cfg.heads * cfg.out_channels ELSE cfg.out_channels
    IN  /\ ~IsNone(params.bias) => Len(params.bias.v) = width
        /\ (pc = "returned" /\ ValidCall) =>
              /\ Len(result.out) = NumNodes
              /\ \A n \in 1..Len(result.out) : Len(result.out[n]) = width

\* C3 witness: a multi-head module that averages its heads, with a bias,
\* has returned for a graph of several nodes.
C3_Witness ==
    /\ pc = "returned" /\ ValidCall
    /\ ~cfg.concat /\ cfg.heads > 1 /\ cfg.out_channels > 1 /\ cfg.has_bias
    /\ NumNodes > 1

\* C4 (as claimed): forward returns the pair exactly when
\* return_attention_weights is True; for False and None the output alone.
C4_PairOnlyWhenTrue ==
    pc = "returned" =>
        (result.kind = "pair" <=> return_attention_weights = Bool(TRUE))

\* C5: _alpha is None at construction and after every forward call; within
\* a call it holds the normalized weights, and those are the ones returned.
C5_AlphaCache ==
    /\ [](pc \in {"idle", "returned"} => IsNone(_alpha))
    /\ [](pc = "propagated" =>
            ~IsNone(_alpha) /\ RowStochastic(_alpha.v, edge_index.rows[2]))
    /\ [][(pc' = "returned" /\ result'.kind = "pair") =>
            (~IsNone(_alpha) /\ result'.alpha = _alpha.v)]_gatVars

\* C5 witness: a call with active dropout returned the weights of a
\* two-edge graph, and the cache is empty again.
C5_Witness ==
    /\ pc = "returned" /\ result.kind = "pair" /\ IsNone(_alpha)
    /\ DropoutActive(cfg) /\ Len(result.alpha) >= 2

\* C10 (as claimed): forward fails, producing no output, whenever a node
\* feature tensor (the tensor, or either member of the pair) is not rank-2
\* or the edge list is not [2, E].
C10_RejectsBadShapes ==
    pc = "returned" => ValidCall

\* -------------------------------------------------------- gat_seq: claims
\* source(e) of the edge list of the call under way, as a node position
SourceOf(e) == seq_edge_index.rows[1][e] + 1
TargetOf(e) == seq_edge_index.rows[2][e] + 1

\* C6: at every layer i, every node n is concatenated with
\* instr_vectors[i][batch[n]] and every edge e with
\* instr_vectors[i][batch[source(e)]]: the instruction vector of its own graph,
\* edges keyed by their source endpoint.
C6_InstructionBroadcast ==
    seq_pc = "post" =>
        /\ Len(x_cat.rows) = Len(batch)
        /\ \A n \in 1..Len(x_cat.rows) :
              x_cat.rows[n] = [h |-> n, ins |-> instr_vectors[seq_i + 1][batch[n] + 1]]
        /\ Len(edge_cat.rows) = Len(seq_edge_index.rows[1])
        /\ \A e \in 1..Len(edge_cat.rows) :
              edge_cat.rows[e] =
                 [attr |-> e, ins |-> instr_vectors[seq_i + 1][batch[SourceOf(e)] + 1]]

\* a second layer has run on a batch of two graphs, one edge of which leads
\* from a node of one graph to a node of the other
C6_Witness ==
    /\ seq_pc = "post" /\ seq_i = 1
    /\ \E n, m \in 1..Len(batch) : batch[n] # batch[m]
    /\ \E e \in 1..Len(edge_cat.rows) : batch[SourceOf(e)] # batch[TargetOf(e)]

\* the operations layer k of L applies to h, and those of layers 0..k-1
LayerOps(k, L) ==
    <<[op |-> "conv", conv |-> k, ins |-> k], [op |-> "skip"]>>
    \o (IF k # L - 1
        THEN <<[op |-> "bn", bn |-> k], [op |-> "relu"], [op |-> "dropout"]>>
        ELSE <<>>)

RECURSIVE OpsBefore(_, _)
OpsBefore(k, L) ==
    IF k = 0 THEN <<>> ELSE OpsBefore(k - 1, L) \o LayerOps(k - 1, L)

\* C7: forward runs layers 0..L-1 in order, each once, layer i using convs[i]
\* and instr_vectors[i]; each layer adds the residual; batch norm, then ReLU,
\* then dropout follow every layer except the last, so that the value
\* returned is the last residual sum; there are L-1 batch-norm modules.
C7_LayerOrder ==
    seq_pc # "unused" =>
        /\ Len(convs) = seq_cfg.num_ins
        /\ Len(bns) = Len(convs) - 1
        /\ (seq_pc \in {"loop", "returned"} => ops = OpsBefore(seq_i, Len(convs)))
        /\ (seq_pc = "post" =>
              ops = OpsBefore(seq_i, Len(convs))
                    \o <<[op |-> "conv", conv |-> seq_i, ins |-> seq_i],
                         [op |-> "skip"]>>)
        /\ (seq_pc = "returned" =>
              /\ seq_i = Len(convs)
              /\ ops[Len(ops)] = [op |-> "skip"]
              /\ seq_result = seq_h)

C7_Witness ==
    /\ seq_pc = "returned" /\ Len(convs) >= 2
    /\ \E k \in 1..Len(ops) : ops[k].op = "bn"

\* C8 (as claimed): a gat_seq whose out_channels differs from the width of the
\* hidden state never gets past the residual add of the first pass, and an
\* output that is returned has the width of the input x.
C8_WidthMismatchFails ==
    /\ seq_pc \in {"post", "returned"} => seq_cfg.out_channels = seq_x.width
    /\ seq_pc = "returned" => seq_result.width = seq_x.width

\* C9 (as claimed): forward returns only when the number of instruction
\* vectors is num_ins; fewer or more make it fail.
C9_InstrCountMismatchFails ==
    seq_pc = "returned" => Len(instr_vectors) = seq_cfg.num_ins

\* ------------------------------------------- gat: isolated target nodes
\* the nodes of the call under way that no edge leads to
IsolatedNodes ==
    {n \in 1..NumNodes : \A e \in 1..Len(edge_index.rows[2]) : edge_index.rows[2][e] # n - 1}

\* C11: for a graph with a node that has no incoming edge (self-loops are
\* never added), a forward that returns gives that node a defined value, the
\* zero aggregate plus the bias when there is one; every entry of the output
\* is a number, and the attention weights of the other nodes still sum to 1
\* per target node.
C11_IsolatedNodeDefined ==
    (pc = "returned" /\ ValidCall) =>
        /\ \A n \in 1..Len(result.out) : \A k \in 1..Len(result.out[n]) :
              result.out[n][k][2] > 0
        /\ \A n \in IsolatedNodes : \A k \in 1..Len(result.out[n]) :
              result.out[n][k] =
                 IF IsNone(params.bias) THEN RatZero ELSE Rat(params.bias.v[k], 1)
        /\ result.kind = "pair" => RowStochastic(result.alpha, edge_index.rows[2])

\* a call has returned the pair for a graph with an isolated node, next to a
\* node with two incoming edges whose output is not zero
C11_Witness ==
    /\ pc = "returned" /\ ValidCall /\ x.kind = "tensor"
    /\ result.kind = "pair"
    /\ IsolatedNodes # {}
    /\ \E e1, e2 \in 1..Len(edge_index.rows[2]) :
          /\ e1 # e2
          /\ edge_index.rows[2][e1] = edge_index.rows[2][e2]
          /\ \E k \in 1..Len(result.out[edge_index.rows[2][e1] + 1]) :
                result.out[edge_index.rows[2][e1] + 1][k] # RatZero

\* ------------------------------------------- gat_seq: repeated forward
\* C12: with dropout probability 0 (no random draw in the pass), a second
\* forward pass on the same module with the same inputs, in the same mode and
\* with no parameter update in between, returns what the first returned: the
\* same operations on the same statistics give the same value, whatever the
\* first pass left behind.
C12_RepeatedPassIdentical ==
    ~IsNone(first_pass) =>
        /\ seq_pc # "failed"
        /\ seq_pc = "returned" =>
              /\ seq_result = first_pass.v.result
              /\ ops = first_pass.v.ops
              /\ stats_used = first_pass.v.stats_used

\* a second training-mode pass has returned; both passes went through a batch
\* norm, and the first left its running statistics updated
C12_Witness ==
    /\ seq_pc = "returned" /\ ~IsNone(first_pass)
    /\ seq_cfg.training
    /\ Len(stats_used) >= 1
    /\ bn_tracked[1] = 2

\* a step of a gat_seq pass, and a step of a gat pass, that leaves the inputs
\* and the persistent state of the module as they were
SeqStepIsPure ==
    seq_pc \in {"loop", "post"} =>
        /\ bn_tracked' = bn_tracked
        /\ convs' = convs /\ bns' = bns /\ seq_cfg' = seq_cfg
        /\ seq_x' = seq_x /\ seq_edge_index' = seq_edge_index
        /\ seq_edge_attr' = seq_edge_attr
        /\ instr_vectors' = instr_vectors /\ batch' = batch
GatStepIsPure ==
    pc \in {"idle", "propagated"} =>
        /\ params' = params /\ cfg' = cfg
        /\ (pc' = "returned" =>
              /\ IsNone(_alpha')
              /\ x' = x /\ edge_index' = edge_index /\ edge_attr' = edge_attr)

\* C14 (as claimed): a forward pass of gat and of gat_seq leaves its inputs and
\* all persistent module state (parameters, normalization statistics, cached
\* attention) as they were, in training and in evaluation mode.
C14_ForwardIsPure == [][SeqStepIsPure /\ GatStepIsPure]_vars

\* ---------------------------------- gat: concurrent forward calls, claims
\* what forward returns for thread t's arguments when no other call runs
RunAlone(t) ==
    LET m == ForwardPropagate(par_cfg, par_params, th_args[t])
    IN  ForwardReturn(par_cfg, par_params, th_args[t], m.out, Some(m.alpha))

\* C13 (as claimed): whatever the interleaving of two concurrent forward calls
\* on one gat, each call returns the output and the attention weights it
\* returns when run alone.
C13_ConcurrentCallsIndependent ==
    \A t \in DOMAIN th_pc :
        /\ th_pc[t] # "failed"
        /\ th_pc[t] = "returned" => th_result[t] = RunAlone(t)

\* ------------------------------------------- optimistic_restore: claims
\* the network key the k-th checkpoint item is meant for: its name after
\* names_map, with the 'detector.' prefix when only the prefixed name is a
\* key of the network
ClaimedKey(k) ==
    LET n == Renamed(state_dict[k].name, names_map)
    IN  IF n \notin DOMAIN own_before /\ (<<"detector">> \o n) \in DOMAIN own_before
        THEN <<"detector">> \o n
        ELSE n

\* the k-th checkpoint item names a key of the network of the same size
Restorable(k) ==
    /\ ClaimedKey(k) \in DOMAIN own_before
    /\ state_dict[k].param.size = own_before[ClaimedKey(k)].size

\* C15: every checkpoint item is processed; an item that names (after
\* names_map, and with the 'detector.' prefix when only the prefixed name
\* exists) a network key of equal size is copied into that key; an item with
\* an unknown name or another size is reported and skipped; a network entry
\* that no item matched is left as it was.
C15_BestEffortRestore ==
    r_pc = "returned" =>
        /\ r_k = Len(state_dict)
        /\ DOMAIN own_state = DOMAIN own_before
        /\ \A key \in DOMAIN own_state :
              LET matches == {k \in 1..Len(state_dict) :
                                 Restorable(k) /\ ClaimedKey(k) = key}
              IN  IF matches = {} THEN own_state[key] = own_before[key]
                  ELSE \E k \in matches :
                          /\ \A k2 \in matches : k2 <= k
                          /\ own_state[key] = state_dict[k].param
        /\ \A k \in 1..Len(state_dict) :
              ~Restorable(k) <=> \E j \in 1..Len(reported) : reported[j] = k

\* a restore has copied one item under the 'detector.' prefix after renaming
\* it, reported another, and left a network entry alone
C15_Witness ==
    /\ r_pc = "returned"
    /\ \E k \in 1..Len(state_dict) :
          /\ Restorable(k)
          /\ Renamed(state_dict[k].name, names_map) # state_dict[k].name
          /\ ClaimedKey(k) = <<"detector">> \o Renamed(state_dict[k].name, names_map)
          /\ own_state[ClaimedKey(k)].val = k
    /\ Len(reported) >= 1
    /\ \E key \in DOMAIN own_state :
          /\ own_state[key].val = 0
          /\ \A k \in 1..Len(state_dict) : ClaimedKey(k) # key

\* C19 (as claimed): optimistic_restore returns True exactly when the restore
\* was complete: every checkpoint item was copied and every network key was
\* given a value by some item, whatever the order of the items.
C19_TrueIffComplete ==
    r_pc = "returned" =>
        (r_result.v <=>
            /\ \A k \in 1..Len(state_dict) : Restorable(k)
            /\ \A key \in DOMAIN own_state :
                  \E k \in 1..Len(state_dict) : ClaimedKey(k) = key)

\* --------------------------------------------------- filter_dets: claims
\* the score of a relation given by its pair of boxes and its row of
\* predicate scores: the largest non-background predicate score times the
\* object scores of the two boxes
ClaimedRelScore(pair, row) ==
    RowMaxFrom(row, 2) * obj_scores[pair[1] + 1] * obj_scores[pair[2] + 1]

PairsWellFormed ==
    /\ \A k \in 1..Len(yielded) :
          /\ yielded[k][1] = (k - 1) * batch_size
          /\ yielded[k][2] = Min(yielded[k][1] + batch_size, len_l)
          /\ yielded[k][1] < yielded[k][2]
    /\ (it_pc = "stopped" /\ ~skip_end) =>
          /\ \A k \in 1..(Len(yielded) - 1) : yielded[k][2] = yielded[k + 1][1]
          /\ (len_l = 0 => yielded = <<>>)
          /\ (len_l > 0 => yielded # <<>> /\ yielded[Len(yielded)][2] = len_l)

\* the last batch of [0, len_l) cut in steps of batch_size
LastBatch == <<((len_l - 1) \div batch_size) * batch_size, len_l>>

Stored(fn) == ~IsNone(files[fn])

\* a step that invokes the wrapped function for file name fn
Invokes(fn) == invoked'[fn] # invoked[fn]

\* C18: for calls with one file name fn: when the file does not exist the
\* wrapped function is invoked once, its result is written to fn and
\* returned; while the file exists every call returns the stored data without
\* invoking the function, whatever the arguments; so the function runs at
\* most once per file and repeated calls return the same data.
C18_CacheOncePerFile ==
    /\ [](\A fn \in DOMAIN files :
            /\ invoked[fn] <= 1
            /\ Cardinality(handed_out[fn]) <= 1
            /\ (invoked[fn] = 1 => Stored(fn))
            /\ (Stored(fn) => handed_out[fn] \subseteq {Unpickle(files[fn].v)}))
    /\ [](c_pc = "return" =>
            /\ Stored(c_fn)
            /\ c_data = Unpickle(files[c_fn].v))
    /\ [][\A fn \in DOMAIN files :
            /\ (Stored(fn) => ~Invokes(fn) /\ files'[fn] = files[fn])
            /\ (Invokes(fn) => /\ c_fn = fn /\ invoked'[fn] = invoked[fn] + 1
                               /\ c_data' = F(c_args)
                               /\ files'[fn] = Some(Pickle(F(c_args))))
            /\ ((c_pc = "called" /\ c_fn = fn /\ ~Stored(fn)) => Invokes(fn))]_vars

\* a call finds the file an earlier call wrote, and returns its data although
\* the function would compute something else from this call's arguments
C18_Witness ==
    /\ c_pc = "return"
    /\ invoked[c_fn] = 1
    /\ n_calls >= 2
    /\ c_data # F(c_args)
    /\ c_data \in handed_out[c_fn]

\* ------------------------------ load_checkpoint, get_optim: claims
\* the states of the optimizers returned
OptimizerStatesReturned ==
    {optimizers.v[name].state : name \in DOMAIN optimizers.v}

\* C20: load_checkpoint returns start_epoch = -1 whenever it returns, and
\* ckpt = None exactly when nothing was loaded; get_optim and get_optim_gan
\* restore optimizer state only when start_epoch > -1 and ckpt is not None;
\* so optimizers built from load_checkpoint's results start fresh, and the
\* optimizers are returned even when loading their state fails.
C20_FreshStart ==
    /\ k_pc = "loaded" =>
          /\ start_epoch = Some(-1)
          /\ (IsNone(ckpt) <=>
                 /\ conf.ckpt = ""
                 /\ (IsNone(checkpoint_path) \/ checkpoint_path.v \notin DOMAIN disk))
    /\ k_pc = "built" =>
          /\ ~IsNone(optimizers)
          /\ ("restored" \in OptimizerStatesReturned =>
                 o_start_epoch.v > -1 /\ ~IsNone(o_ckpt))
          /\ (o_src = "load_checkpoint" => OptimizerStatesReturned = {"fresh"})

\* optimizers were built from the results of a load_checkpoint that loaded a
\* checkpoint of a later epoch whose optimizer state loads
C20_Witness ==
    /\ k_pc = "built" /\ o_src = "load_checkpoint"
    /\ ~IsNone(o_ckpt)
    /\ o_ckpt.v.optimizer = "good" /\ o_ckpt.v.epoch > 0
    /\ DOMAIN optimizers.v = {"G_optimizer", "D_optimizer"}

====
